---- MODULE Spec2Model ----
(***************************************************************************)
(* Hint resolution and classification of beartype:                        *)
(*   beartype/_decor/_cache/cachehint.py   cache_hint_nonpep563            *)
(*   beartype/_util/hint/utilhinttest.py   die_unless_hint, is_hint,       *)
(*                                         is_hint_ignorable               *)
(* The marker of the decorated callables:                                  *)
(*   beartype/_util/func/mod/utilbeartypefunc.py  (and the earlier         *)
(*   beartype/_util/func/lib/utilbeartypefunc.py) is_func_unbeartypeable,  *)
(*                                         is_func_beartyped,              *)
(*                                         set_func_beartyped              *)
(* The registry of the packages of the import hook:                        *)
(*   beartype/claw/_pkg/clawpkgadd.py      add_packages, add_packages_all, *)
(*                                         get_package_conf_if_added       *)
(* Python objects are records [kind, name, args, inst].  Two records are   *)
(* equal exactly when the Python objects are the same instance ("is"):     *)
(* inst tells apart the instances of a hint that does not cache itself     *)
(* (list[int] is not list[int]); self-cached objects have inst = 0.        *)
(***************************************************************************)
EXTENDS Naturals, Sequences, FiniteSets

VARIABLES
    annotations,          \* func -> (pith_name -> object): func.__annotations__
    _HINT_REPR_TO_HINT,   \* the type hint cache: repr -> hint
    resolved,             \* history: <<hint passed, hint returned>> of the
                          \* cache_hint_nonpep563 calls that returned
    last,                 \* the most recent call and its outcome
    arg,                  \* the object under test of the classifier calls
    attrs,                \* func -> the names of the attributes func defines
    sphinx,               \* Sphinx is autogenerating documentation now
    marks,                \* history: func -> number of set_func_beartyped
                          \* calls on func
    decor,                \* the decoration of f: the slot resolved next,
                          \* its outcome and the annotations it started from
    threads,              \* thread -> its position in cache_hint_nonpep563
                          \* and its local variables
    package_basename_to_subpackages,
                          \* the registry: the sequence of the basenames of
                          \* a package -> conf_if_added of its node
    params_flat_to_return_value,
                          \* the memo of is_hint: the parameters of a call
                          \* -> the value the call returned
    claw_threads,         \* thread -> its position in add_packages and
                          \* its local variables
    _claw_lock            \* the thread holding the lock of the registry

hintvars == <<annotations, _HINT_REPR_TO_HINT, resolved, arg>>
funcvars == <<attrs, sphinx, marks>>
clawvars == <<package_basename_to_subpackages>>
memovars == <<params_flat_to_return_value>>
lockvars == <<claw_threads, _claw_lock>>
vars == <<annotations, _HINT_REPR_TO_HINT, resolved, last, arg, attrs, sphinx,
          marks, decor, threads, package_basename_to_subpackages,
          params_flat_to_return_value, claw_threads, _claw_lock>>

\* ------------------------------------------------------------- bounds
\* Longest tuple union, and longest subscription of Union, enumerated.
MaxArgs == 2

\* ------------------------------------------------------------ objects
Obj(k, n, a, i) == [kind |-> k, name |-> n, args |-> a, inst |-> i]

Class(n) == Obj("class", n, <<>>, 0)
int == Class("int")
str == Class("str")
object == Class("object")
\* A string: the name of a class (a PEP-noncompliant forward reference).
Str(n) == Obj("str", n, <<>>, 0)
Any == Obj("Any", "", <<>>, 0)
ForwardRef(n) == Obj("ForwardRef", n, <<>>, 0)
\* A PEP-compliant hint whose sign @beartype does not support.
Literal == Obj("Literal", "", <<>>, 0)
\* A hashable object that is no hint at all (the integer 42).
IntObj == Obj("int_obj", "42", <<>>, 0)
\* An unhashable object that is no hint at all (the list []).
ListObj == Obj("list_obj", "[]", <<>>, 0)
NoneObj == Obj("None", "", <<>>, 0)
\* The i-th instance of the tuple (a[1], ..., a[n]): equal tuples written
\* at two places are separate objects.
TupleInst(a, i) == Obj("tuple", "", a, i)
Tuple(a) == TupleInst(a, 1)
\* typing.Union[a[1], ..., a[n]], as typing builds and caches it.
Union(a) == Obj("Union", "", a, 0)
\* typing.Annotated[origin, meta]; meta "[]" is an unhashable metadata.
Annotated(origin, meta) == Obj("Annotated", meta, <<origin>>, 0)
\* The i-th instance of the PEP 585 hint list[child].
List585(child, i) == Obj("list", "", <<child>>, i)

\* repr(hint): the machine-readable representation, the same for every
\* instance of a hint.
Repr(h) == [h EXCEPT !.inst = 0]

\* True only if equal objects of the kind are one instance: every object
\* here but the tuples and the PEP 585 hints (cachehint.py, "This
\* dictionary caches").
IsSelfCached(h) == h.kind \notin {"list", "tuple"}

Range(s) == {s[i] : i \in DOMAIN s}

\* The sequences over S of length lo..hi.
SeqsOf(S, lo, hi) == UNION {[1..n -> S] : n \in lo..hi}

IsInjective(s) == \A i, j \in DOMAIN s : s[i] = s[j] => i = j

\* hash(obj) raises no TypeError.
RECURSIVE IsHashable(_)
IsHashable(h) ==
    /\ h.kind # "list_obj"
    /\ h.kind = "Annotated" => h.name # "[]"
    /\ \A i \in DOMAIN h.args : IsHashable(h.args[i])

\* ------------------------------------------------- outcomes of a call
ExcNone == "none"
TypeError == "TypeError"
PepUnsupported == "BeartypeDecorHintPepUnsupportedException"
NonPep == "BeartypeDecorHintNonPepException"

\* A call returned the boolean b, returned the object v, or raised e.
ReturnBool(b) == [exc |-> ExcNone, bool |-> b, val |-> NoneObj]
ReturnObj(v) == [exc |-> ExcNone, bool |-> FALSE, val |-> v]
Raise(e) == [exc |-> e, bool |-> FALSE, val |-> NoneObj]

\* --------------------------------------------- helpers outside of src/
\* callable_cached: the decorated function is called with positional
\* parameters that are hashed as the key of the memo, so an unhashable
\* parameter raises TypeError before the function body runs.
callable_cached(params, body) ==
    IF \A i \in DOMAIN params : IsHashable(params[i]) THEN body
    ELSE Raise(TypeError)

\* The kinds of the PEP-compliant type hints.
HINT_PEP_KINDS == {"Any", "ForwardRef", "Literal", "Union", "Annotated", "list"}

\* True only if the object is a PEP-compliant type hint.
is_hint_pep(hint) == hint.kind \in HINT_PEP_KINDS

\* The sign (argumentless typing attribute) identifying a PEP-compliant hint.
get_hint_pep_sign(hint) == hint.kind

\* The signs for which @beartype generates checks.
HINT_PEP_SIGNS_SUPPORTED == {"Any", "ForwardRef", "Union", "Annotated", "list"}

\* True only if the PEP-compliant hint is supported.
is_hint_pep_supported(hint) ==
    is_hint_pep(hint) /\ get_hint_pep_sign(hint) \in HINT_PEP_SIGNS_SUPPORTED

\* Raises unless the PEP-compliant hint is supported.
die_unless_hint_pep_supported(hint) ==
    IF is_hint_pep_supported(hint) THEN ExcNone ELSE PepUnsupported

\* True only if the object is a class, or a string when strings are valid.
is_hint_nonpep_item(item, is_str_valid) ==
    \/ item.kind = "class"
    \/ is_str_valid /\ item.kind = "str"

\* True only if the object is a PEP-noncompliant type hint: a class, a
\* classname, or a tuple of one or more classes and classnames.
is_hint_nonpep(hint, is_str_valid) ==
    \/ is_hint_nonpep_item(hint, is_str_valid)
    \/ /\ hint.kind = "tuple"
       /\ Len(hint.args) > 0
       /\ \A i \in DOMAIN hint.args :
              is_hint_nonpep_item(hint.args[i], is_str_valid)

\* Raises unless the object is a PEP-noncompliant type hint.
die_unless_hint_nonpep(hint, is_str_valid) ==
    IF is_hint_nonpep(hint, is_str_valid) THEN ExcNone ELSE NonPep

\* The signs of the unions (Union, and Optional which typing reduces to it).
HINT_PEP_SIGNS_UNION == {"Union"}

\* The child hints subscripting a PEP-compliant hint.
get_hint_pep_args(hint) == hint.args

\* The hints that are ignorable by definition.
HINTS_SHALLOW_IGNORABLE == {Any, object}

\* ------------------------------------------------ utilhinttest.py
\* is_hint() forgetting its flag: a string is always accepted.
is_hint_body_drops_flag(hint, is_str_valid) ==
    IF is_hint_pep(hint) THEN is_hint_pep_supported(hint)
    ELSE is_hint_nonpep(hint, TRUE)

\* The body of is_hint(), lines 182-191.
is_hint_body(hint, is_str_valid) ==
    IF is_hint_pep(hint) THEN is_hint_pep_supported(hint)
    ELSE is_hint_nonpep(hint, is_str_valid)

\* @callable_cached is_hint(hint, is_str_valid).
is_hint(hint, is_str_valid) ==
    callable_cached(<<hint>>, ReturnBool(is_hint_body(hint, is_str_valid)))

\* die_unless_hint() without the memoized test of lines 103-104.
die_unless_hint_no_fast_path(hint, is_str_valid) ==
    LET pep == IF is_hint_pep(hint)
               THEN die_unless_hint_pep_supported(hint)
               ELSE ExcNone
    IN  IF pep # ExcNone THEN pep
        ELSE die_unless_hint_nonpep(hint, is_str_valid)

\* die_unless_hint() testing with the default flag instead of its own.
die_unless_hint_drops_flag(hint, is_str_valid) ==
    LET tested == is_hint(hint, TRUE) IN
    IF tested.exc # ExcNone THEN tested.exc
    ELSE IF tested.bool THEN ExcNone
    ELSE LET pep == IF is_hint_pep(hint)
                    THEN die_unless_hint_pep_supported(hint)
                    ELSE ExcNone
         IN  IF pep # ExcNone THEN pep
             ELSE die_unless_hint_nonpep(hint, is_str_valid)

\* die_unless_hint(hint, hint_label, is_str_valid): the exception raised,
\* ExcNone when the call returns.
die_unless_hint(hint, is_str_valid) ==
    LET tested == is_hint(hint, is_str_valid) IN
    IF tested.exc # ExcNone THEN tested.exc
    ELSE IF tested.bool THEN ExcNone
    ELSE LET pep == IF is_hint_pep(hint)
                    THEN die_unless_hint_pep_supported(hint)
                    ELSE ExcNone
         IN  IF pep # ExcNone THEN pep
             ELSE die_unless_hint_nonpep(hint, is_str_valid)

\* is_hint_ignorable() with all() in place of any() at line 256.
RECURSIVE is_hint_ignorable_body_all(_)
is_hint_ignorable_body_all(hint) ==
    IF hint \in HINTS_SHALLOW_IGNORABLE THEN TRUE
    ELSE IF is_hint_pep(hint)
    THEN LET hint_attr == get_hint_pep_sign(hint) IN
         IF hint_attr \in HINT_PEP_SIGNS_UNION
         THEN \A hint_child \in Range(get_hint_pep_args(hint)) :
                  is_hint_ignorable_body_all(hint_child)
         ELSE IF hint_attr = "Annotated"
         THEN is_hint_ignorable_body_all(hint.args[1])
         ELSE FALSE
    ELSE FALSE

\* is_hint_ignorable() testing the origin of an annotated hint only
\* shallowly at line 264.
RECURSIVE is_hint_ignorable_body_shallow_origin(_)
is_hint_ignorable_body_shallow_origin(hint) ==
    IF hint \in HINTS_SHALLOW_IGNORABLE THEN TRUE
    ELSE IF is_hint_pep(hint)
    THEN LET hint_attr == get_hint_pep_sign(hint) IN
         IF hint_attr \in HINT_PEP_SIGNS_UNION
         THEN \E hint_child \in Range(get_hint_pep_args(hint)) :
                  is_hint_ignorable_body_shallow_origin(hint_child)
         ELSE IF hint_attr = "Annotated"
         THEN hint.args[1] \in HINTS_SHALLOW_IGNORABLE
         ELSE FALSE
    ELSE FALSE

\* is_hint_ignorable() recursing into the children of every subscripted
\* hint rather than of unions only at line 252.
RECURSIVE is_hint_ignorable_body_any_sign(_)
is_hint_ignorable_body_any_sign(hint) ==
    IF hint \in HINTS_SHALLOW_IGNORABLE THEN TRUE
    ELSE IF is_hint_pep(hint)
    THEN LET hint_attr == get_hint_pep_sign(hint) IN
         IF hint_attr = "Annotated"
         THEN is_hint_ignorable_body_any_sign(hint.args[1])
         ELSE \E hint_child \in Range(get_hint_pep_args(hint)) :
                  is_hint_ignorable_body_any_sign(hint_child)
    ELSE FALSE

\* is_hint_ignorable() taking a tuple for the union of its members.
RECURSIVE is_hint_ignorable_body_tuple_union(_)
is_hint_ignorable_body_tuple_union(hint) ==
    IF hint \in HINTS_SHALLOW_IGNORABLE THEN TRUE
    ELSE IF hint.kind = "tuple"
    THEN \E hint_child \in Range(hint.args) :
             is_hint_ignorable_body_tuple_union(hint_child)
    ELSE IF is_hint_pep(hint)
    THEN LET hint_attr == get_hint_pep_sign(hint) IN
         IF hint_attr \in HINT_PEP_SIGNS_UNION
         THEN \E hint_child \in Range(get_hint_pep_args(hint)) :
                  is_hint_ignorable_body_tuple_union(hint_child)
         ELSE IF hint_attr = "Annotated"
         THEN is_hint_ignorable_body_tuple_union(hint.args[1])
         ELSE FALSE
    ELSE FALSE

\* The body of is_hint_ignorable(), lines 242-270, on a hashable hint.
RECURSIVE is_hint_ignorable_body(_)
is_hint_ignorable_body(hint) ==
    IF hint \in HINTS_SHALLOW_IGNORABLE THEN TRUE
    ELSE IF is_hint_pep(hint)
    THEN LET hint_attr == get_hint_pep_sign(hint) IN
         IF hint_attr \in HINT_PEP_SIGNS_UNION
         THEN \E hint_child \in Range(get_hint_pep_args(hint)) :
                  is_hint_ignorable_body(hint_child)
         ELSE IF hint_attr = "Annotated"
         THEN is_hint_ignorable_body(hint.args[1])
         ELSE FALSE
    ELSE FALSE

\* @callable_cached is_hint_ignorable(hint).
is_hint_ignorable(hint) ==
    callable_cached(<<hint>>, ReturnBool(is_hint_ignorable_body(hint)))

\* ------------------------------------------------ typing.Union
\* typing._type_check(arg): a string becomes a forward reference, None the
\* class of None, and an object that is neither a type nor callable is
\* rejected (NoneObj stands for the rejection).
type_check(param) ==
    CASE param.kind = "str" -> ForwardRef(param.name)
      [] param.kind = "None" -> Class("NoneType")
      [] param.kind \in {"int_obj", "list_obj", "tuple"} -> NoneObj
      [] OTHER -> param

\* typing._remove_dups_flatten(params): the children of a child union take
\* its place, then only the first of equal children is kept.
RECURSIVE flatten(_)
flatten(params) ==
    IF params = <<>> THEN <<>>
    ELSE LET head == params[1] IN
         (IF head.kind = "Union" THEN head.args ELSE <<head>>)
             \o flatten(Tail(params))

RECURSIVE remove_dups(_)
remove_dups(params) ==
    IF params = <<>> THEN <<>>
    ELSE LET front == remove_dups(SubSeq(params, 1, Len(params) - 1))
             back == params[Len(params)]
         IN  IF back \in Range(front) THEN front ELSE Append(front, back)

\* Union.__getitem__(params) of Python 3.7 to 3.10, as called at
\* cachehint.py line 237: the union subscripted by the checked, flattened
\* and deduplicated children, which typing caches (so the same children in
\* the same order give the same instance); the only child left, if one is.
Union__getitem__(params) ==
    LET checked == [i \in DOMAIN params |-> type_check(params[i])] IN
    IF params = <<>> THEN Raise(TypeError)
    ELSE IF \E i \in DOMAIN checked :
                checked[i] = NoneObj \/ ~IsHashable(checked[i])
    THEN Raise(TypeError)
    ELSE LET children == remove_dups(flatten(checked)) IN
         IF Len(children) = 1 THEN ReturnObj(children[1])
         ELSE ReturnObj(Union(children))

\* ------------------------------------------------ cachehint.py
\* The outcome of a call with the state it leaves behind.
Outcome(result, anns, cache) ==
    [exc |-> result.exc, bool |-> result.bool, val |-> result.val,
     annotations |-> anns, cache |-> cache]

\* The cache with the hint bound to its representation.
Bind(cache, hint) ==
    [repr \in DOMAIN cache \cup {Repr(hint)} |->
        IF repr = Repr(hint) THEN hint ELSE cache[repr]]

\* cache_hint_nonpep563() assigning the hint to the slot outside of the
\* test of line 234.
cache_hint_nonpep563_writes_always(func, pith_name, hint) ==
    LET coerced == IF hint.kind = "tuple" THEN Union__getitem__(hint.args)
                   ELSE ReturnObj(hint)
    IN
    IF coerced.exc # ExcNone
    THEN Outcome(coerced, annotations, _HINT_REPR_TO_HINT)
    ELSE LET hint2 == coerced.val
             anns2 == [annotations EXCEPT ![func][pith_name] = hint2]
             died == die_unless_hint(hint2, TRUE)
         IN  IF died # ExcNone
             THEN Outcome(Raise(died), anns2, _HINT_REPR_TO_HINT)
             ELSE Outcome(ReturnObj(hint2), anns2, _HINT_REPR_TO_HINT)

\* cache_hint_nonpep563() assigning the union to the slot only at line 237
\* and returning the hint it was passed.
cache_hint_nonpep563_returns_tuple(func, pith_name, hint) ==
    LET coerced == IF hint.kind = "tuple" THEN Union__getitem__(hint.args)
                   ELSE ReturnObj(hint)
    IN
    IF coerced.exc # ExcNone
    THEN Outcome(coerced, annotations, _HINT_REPR_TO_HINT)
    ELSE LET hint2 == coerced.val
             anns2 == IF hint.kind = "tuple"
                      THEN [annotations EXCEPT ![func][pith_name] = hint2]
                      ELSE annotations
             died == die_unless_hint(hint2, TRUE)
         IN  IF died # ExcNone
             THEN Outcome(Raise(died), anns2, _HINT_REPR_TO_HINT)
             ELSE Outcome(ReturnObj(hint), anns2, _HINT_REPR_TO_HINT)

\* cache_hint_nonpep563() assigning the union to the local only at line
\* 237, the slot keeping the tuple.
cache_hint_nonpep563_keeps_tuple(func, pith_name, hint) ==
    LET coerced == IF hint.kind = "tuple" THEN Union__getitem__(hint.args)
                   ELSE ReturnObj(hint)
    IN
    IF coerced.exc # ExcNone
    THEN Outcome(coerced, annotations, _HINT_REPR_TO_HINT)
    ELSE LET hint2 == coerced.val
             died == die_unless_hint(hint2, TRUE)
         IN  IF died # ExcNone
             THEN Outcome(Raise(died), annotations, _HINT_REPR_TO_HINT)
             ELSE Outcome(ReturnObj(hint2), annotations, _HINT_REPR_TO_HINT)

\* cache_hint_nonpep563() caching every hint it returns under its
\* representation, over the hint cached there.
cache_hint_nonpep563_rebinds(func, pith_name, hint) ==
    LET coerced == IF hint.kind = "tuple" THEN Union__getitem__(hint.args)
                   ELSE ReturnObj(hint)
    IN
    IF coerced.exc # ExcNone
    THEN Outcome(coerced, annotations, _HINT_REPR_TO_HINT)
    ELSE LET hint2 == coerced.val
             anns2 == IF hint.kind = "tuple"
                      THEN [annotations EXCEPT ![func][pith_name] = hint2]
                      ELSE annotations
             died == die_unless_hint(hint2, TRUE)
         IN  IF died # ExcNone
             THEN Outcome(Raise(died), anns2, _HINT_REPR_TO_HINT)
             ELSE Outcome(ReturnObj(hint2), anns2,
                          Bind(_HINT_REPR_TO_HINT, hint2))

\* cache_hint_nonpep563() without the validation of line 242.
cache_hint_nonpep563_unvalidated(func, pith_name, hint) ==
    LET coerced == IF hint.kind = "tuple" THEN Union__getitem__(hint.args)
                   ELSE ReturnObj(hint)
    IN
    IF coerced.exc # ExcNone
    THEN Outcome(coerced, annotations, _HINT_REPR_TO_HINT)
    ELSE LET hint2 == coerced.val
             anns2 == IF hint.kind = "tuple"
                      THEN [annotations EXCEPT ![func][pith_name] = hint2]
                      ELSE annotations
         IN  Outcome(ReturnObj(hint2), anns2, _HINT_REPR_TO_HINT)

\* cache_hint_nonpep563() coercing a tuple into the union of its checked
\* members one by one, equal members and a single member included.
cache_hint_nonpep563_keeps_members(func, pith_name, hint) ==
    LET coerced == IF hint.kind # "tuple" THEN ReturnObj(hint)
                   ELSE IF Union__getitem__(hint.args).exc # ExcNone
                   THEN Union__getitem__(hint.args)
                   ELSE ReturnObj(Union([i \in DOMAIN hint.args |->
                                             type_check(hint.args[i])]))
    IN
    IF coerced.exc # ExcNone
    THEN Outcome(coerced, annotations, _HINT_REPR_TO_HINT)
    ELSE LET hint2 == coerced.val
             anns2 == IF hint.kind = "tuple"
                      THEN [annotations EXCEPT ![func][pith_name] = hint2]
                      ELSE annotations
             died == die_unless_hint(hint2, TRUE)
         IN  IF died # ExcNone
             THEN Outcome(Raise(died), anns2, _HINT_REPR_TO_HINT)
             ELSE Outcome(ReturnObj(hint2), anns2, _HINT_REPR_TO_HINT)

\* cache_hint_nonpep563(func, pith_name, hint, hint_label), lines 234-247.
cache_hint_nonpep563(func, pith_name, hint) ==
    LET coerced == IF hint.kind = "tuple" THEN Union__getitem__(hint.args)
                   ELSE ReturnObj(hint)
    IN
    IF coerced.exc # ExcNone
    THEN Outcome(coerced, annotations, _HINT_REPR_TO_HINT)
    ELSE LET hint2 == coerced.val
             anns2 == IF hint.kind = "tuple"
                      THEN [annotations EXCEPT ![func][pith_name] = hint2]
                      ELSE annotations
             died == die_unless_hint(hint2, TRUE)
         IN  IF died # ExcNone
             THEN Outcome(Raise(died), anns2, _HINT_REPR_TO_HINT)
             ELSE Outcome(ReturnObj(hint2), anns2, _HINT_REPR_TO_HINT)

\* ------------------------------------------------ universe
\* The callables and their annotated parameters: f(x: ...) and g(y: ...).
Funcs == {"f", "g"}
PithNames(func) == IF func = "f" THEN {"x"} ELSE {"y"}

\* The members of the tuple unions annotating the callables.
RawMembers == {int, str, Str("A")}

\* The instances of a hint that does not cache itself: the hint of f is
\* the first instance, the hint of g that same object or a second one.
Instances(func) == IF func = "f" THEN {1} ELSE {1, 2}

\* The raw hints that may annotate the callable before resolution.
RawHints(func) ==
    {int, Str("A"), Any, Literal, IntObj, ListObj}
    \cup {TupleInst(a, i) : a \in SeqsOf(RawMembers, 0, MaxArgs),
                            i \in Instances(func)}
    \cup {List585(int, i) : i \in Instances(func)}
    \cup {Union(<<int, str>>)}

\* ------------------------------------------------ calls
NoCall ==
    [op |-> "none", func |-> "", pith_name |-> "", hint |-> NoneObj,
     is_str_valid |-> FALSE, exc |-> ExcNone, bool |-> FALSE, val |-> NoneObj]

Call(op, func, pith_name, hint, is_str_valid, r) ==
    [op |-> op, func |-> func, pith_name |-> pith_name, hint |-> hint,
     is_str_valid |-> is_str_valid, exc |-> r.exc, bool |-> r.bool,
     val |-> r.val]

\* The hints annotating some callable now.
Slots == UNION {{<<func, p>> : p \in PithNames(func)} : func \in Funcs}
Annotating == {annotations[slot[1]][slot[2]] : slot \in Slots}

\* The decorator resolves the hint of a parameter of a callable: the caller
\* passes a hint that annotates a callable, its own or another's.
Resolve(func, pith_name, hint) ==
    LET r == cache_hint_nonpep563(func, pith_name, hint) IN
    /\ annotations' = r.annotations
    /\ _HINT_REPR_TO_HINT' = r.cache
    /\ resolved' = IF r.exc = ExcNone THEN resolved \cup {<<hint, r.val>>}
                   ELSE resolved
    /\ last' = Call("cache_hint_nonpep563", func, pith_name, hint, TRUE, r)
    /\ UNCHANGED <<arg, funcvars, decor, threads, clawvars, memovars, lockvars>>

\* The classifier calls on the object under test.
CallIsHint(is_str_valid) ==
    /\ last' = Call("is_hint", "", "", arg, is_str_valid,
                    is_hint(arg, is_str_valid))
    /\ UNCHANGED <<hintvars, funcvars, decor, threads, clawvars, memovars, lockvars>>

CallDieUnlessHint(is_str_valid) ==
    /\ last' = Call("die_unless_hint", "", "", arg, is_str_valid,
                    Raise(die_unless_hint(arg, is_str_valid)))
    /\ UNCHANGED <<hintvars, funcvars, decor, threads, clawvars, memovars, lockvars>>

CallIsHintIgnorable ==
    /\ last' = Call("is_hint_ignorable", "", "", arg, FALSE,
                    is_hint_ignorable(arg))
    /\ UNCHANGED <<hintvars, funcvars, decor, threads, clawvars, memovars, lockvars>>

\* The object under test annotates f's parameter x, which is resolved.
AnnotateAndResolve ==
    LET r == cache_hint_nonpep563("f", "x", arg) IN
    /\ annotations' = r.annotations
    /\ _HINT_REPR_TO_HINT' = r.cache
    /\ resolved' = IF r.exc = ExcNone THEN resolved \cup {<<arg, r.val>>}
                   ELSE resolved
    /\ last' = Call("cache_hint_nonpep563", "f", "x", arg, TRUE, r)
    /\ UNCHANGED <<arg, funcvars, decor, threads, clawvars, memovars, lockvars>>

\* ------------------------------------------------ specifications
EmptyCache == [repr \in {} |-> NoneObj]

\* The parts of the state that a specification leaves alone: functions
\* defining __annotations__ only, no documentation being generated, no
\* decoration under way, no thread started, nothing registered.
InitFuncIdle ==
    /\ attrs = [func \in Funcs |-> {"__annotations__"}]
    /\ sphinx = FALSE
    /\ marks = [func \in Funcs |-> 0]

InitDecorIdle == decor = [status |-> "idle"]

InitThreadsIdle == threads = <<>>

InitClawIdle == package_basename_to_subpackages = [path \in {<<>>} |-> "None"]

InitMemoIdle == params_flat_to_return_value = <<>>

InitLockIdle == claw_threads = <<>> /\ _claw_lock = 0

\* Resolution of the annotations of two callables.
Init ==
    /\ \E hint_x \in RawHints("f"), hint_y \in RawHints("g") :
           annotations = [func \in Funcs |->
                             IF func = "f" THEN [x |-> hint_x]
                             ELSE [y |-> hint_y]]
    /\ _HINT_REPR_TO_HINT = EmptyCache
    /\ resolved = {}
    /\ last = NoCall
    /\ arg = NoneObj
    /\ InitFuncIdle /\ InitDecorIdle /\ InitThreadsIdle /\ InitClawIdle /\ InitMemoIdle /\ InitLockIdle

Next ==
    \E slot \in Slots : \E hint \in Annotating :
        Resolve(slot[1], slot[2], hint)

Spec == Init /\ [][Next]_vars

\* ------------------------------------------------ classifier universe
\* The objects that are no containers of other objects.
Atoms == {int, str, object, Str("A"), Any, ForwardRef("A"), Literal,
          IntObj, ListObj}

\* The members of the tuples under test.
PureMembers == {int, object, Str("A"), Any, ListObj}

\* The metadata of the metadata-wrapped hints under test.
Metadata == {"m1", "m2", "[]"}

\* The unions subscripted by 2..MaxArgs different children out of S.
UnionsOf(S) == {Union(a) : a \in {b \in SeqsOf(S, 2, MaxArgs) : IsInjective(b)}}

ShallowAnnotated == {Annotated(origin, meta) : origin \in {int, Any}, meta \in Metadata}

PureUnions == UnionsOf({int, str, Any, object, Annotated(int, "m1"), Annotated(Any, "m1"),
                        List585(Any, 1)})

\* The objects passed to the classifier.
PureHints ==
    Atoms
    \cup {Tuple(a) : a \in SeqsOf(PureMembers, 0, MaxArgs)}
    \cup {List585(child, i) : child \in {int, Any}, i \in Instances("g")}
    \cup ShallowAnnotated
    \cup PureUnions
    \cup {Annotated(origin, meta) : origin \in PureUnions, meta \in {"m1", "[]"}}

\* The classifier applied to one object, in any order and any number of
\* times.
InitPure ==
    /\ annotations = [func \in Funcs |->
                         IF func = "f" THEN [x |-> int] ELSE [y |-> int]]
    /\ _HINT_REPR_TO_HINT = EmptyCache
    /\ resolved = {}
    /\ last = NoCall
    /\ arg \in PureHints
    /\ InitFuncIdle /\ InitDecorIdle /\ InitThreadsIdle /\ InitClawIdle /\ InitMemoIdle /\ InitLockIdle

NextPure ==
    \/ \E is_str_valid \in BOOLEAN : CallIsHint(is_str_valid)
    \/ \E is_str_valid \in BOOLEAN : CallDieUnlessHint(is_str_valid)
    \/ CallIsHintIgnorable
    \/ AnnotateAndResolve

SpecPure == InitPure /\ [][NextPure]_vars

\* ================================================ claims
IsResolve(call) == call.op = "cache_hint_nonpep563"
Returned(call) == call.op # "none" /\ call.exc = ExcNone
Slot(call) == annotations[call.func][call.pith_name]

\* C1 (as claimed): when a non-self-cached hint h2 is resolved after a
\* distinct instance h1 with the same representation was resolved, the call
\* returns the instance the first call returned and the slot of the second
\* owner holds that instance.
C1_Dedup ==
    \A pair \in resolved :
        ( /\ IsResolve(last) /\ Returned(last)
          /\ pair[1] # last.hint
          /\ Repr(pair[1]) = Repr(last.hint)
          /\ ~IsSelfCached(pair[1]) /\ ~IsSelfCached(last.hint) )
        => (last.val = pair[2] /\ Slot(last) = pair[2])

\* C2: resolving a hint that an earlier call returned returns that same
\* instance and leaves the annotations and the type hint cache as they were.
C2_Idempotence ==
    [][ (IsResolve(last') /\ last'.hint \in {pair[2] : pair \in resolved})
        => ( /\ Returned(last')
             /\ last'.val = last'.hint
             /\ annotations' = annotations
             /\ _HINT_REPR_TO_HINT' = _HINT_REPR_TO_HINT ) ]_vars

\* C2 witness: the union coerced from a tuple by an earlier call was
\* resolved again.
C2_Witness ==
    /\ IsResolve(last) /\ Returned(last)
    /\ last.hint.kind = "Union"
    /\ \E pair \in resolved : pair[1].kind = "tuple" /\ pair[2] = last.hint

\* The case of C3: a tuple of two or more different classes or classnames
\* was resolved.
IsClassOrName(member) == member.kind \in {"class", "str"}
C3_Case ==
    /\ IsResolve(last)
    /\ last.hint.kind = "tuple"
    /\ Len(last.hint.args) >= 2
    /\ IsInjective(last.hint.args)
    /\ \A i \in DOMAIN last.hint.args : IsClassOrName(last.hint.args[i])

\* C3 (as claimed): the call returns a union whose children are exactly the
\* members of the tuple in their order, and the slot holds that union.
C3_TupleUnionCoercion ==
    C3_Case =>
        /\ Returned(last)
        /\ last.val.kind = "Union"
        /\ last.val.args = last.hint.args
        /\ Slot(last) = last.val

\* C3 (amended): the children are the members in their order, a class as
\* itself and a classname as the forward reference to that name.
C3_TupleUnionCoercionAmended ==
    C3_Case =>
        /\ Returned(last)
        /\ last.val.kind = "Union"
        /\ Len(last.val.args) = Len(last.hint.args)
        /\ \A i \in DOMAIN last.hint.args :
               LET member == last.hint.args[i] IN
               last.val.args[i] = IF member.kind = "str"
                                  THEN ForwardRef(member.name) ELSE member
        /\ Slot(last) = last.val

\* C3 witness: a tuple of a classname and a class was coerced.
C3_Witness ==
    /\ C3_Case /\ Returned(last)
    /\ last.hint.args = <<Str("A"), int>>
    /\ Slot(last) = Union(<<ForwardRef("A"), int>>)

\* C4: when f's x annotated by the tuple (int, str) is resolved and then g's
\* y annotated by a separate equal tuple is resolved, both slots hold the
\* same instance of the union of int and str.
C4_EndToEndSharing ==
    [][ ( /\ IsResolve(last) /\ last.func = "f" /\ last.pith_name = "x"
          /\ last.hint.kind = "tuple" /\ last.hint.args = <<int, str>>
          /\ IsResolve(last') /\ last'.func = "g" /\ last'.pith_name = "y"
          /\ last'.hint = annotations["g"]["y"]
          /\ last'.hint.kind = "tuple" /\ last'.hint.args = <<int, str>>
          /\ last'.hint # last.hint )
        => ( /\ annotations'["f"]["x"] = annotations'["g"]["y"]
             /\ annotations'["g"]["y"].kind = "Union"
             /\ annotations'["g"]["y"].args = <<int, str>> ) ]_vars

\* C4 witness: g's separate tuple (int, str) was resolved after f's.
C4_Witness ==
    /\ IsResolve(last) /\ last.func = "g" /\ last.pith_name = "y"
    /\ last.hint = TupleInst(<<int, str>>, 2)
    /\ <<TupleInst(<<int, str>>, 1), Union(<<int, str>>)>> \in resolved
    /\ annotations["f"]["x"] = Union(<<int, str>>)
    /\ annotations["g"]["y"] = Union(<<int, str>>)

C6_UnhashableRejection ==
    (last.op # "none" /\ ~IsHashable(last.hint)) => last.exc = TypeError

\* C6 witness: die_unless_hint was called on the unhashable list.
C6_Witness ==
    /\ last.op = "die_unless_hint"
    /\ last.hint = ListObj
    /\ last.exc = TypeError

\* C7: on a hashable object die_unless_hint returns exactly when is_hint
\* is true, and otherwise raises the PEP-unsupported exception for a
\* PEP-compliant object and the PEP-noncompliant exception for any other.
C7_DieUnlessHintAgrees ==
    (last.op = "die_unless_hint" /\ IsHashable(last.hint)) =>
        LET tested == is_hint(last.hint, last.is_str_valid) IN
        /\ tested.exc = ExcNone
        /\ (last.exc = ExcNone) <=> tested.bool
        /\ ~tested.bool =>
               last.exc = IF last.hint.kind \in HINT_PEP_KINDS
                          THEN PepUnsupported ELSE NonPep

\* C7 witness: die_unless_hint rejected a classname where strings are
\* invalid.
C7_Witness ==
    /\ last.op = "die_unless_hint"
    /\ last.hint = Str("A")
    /\ ~last.is_str_valid
    /\ last.exc = NonPep

\* The fallback forms of C8: a class, a classname, a tuple of one or more
\* classes and classnames, the names only where strings are allowed.
C8_IsFallbackItem(h, allow_string) ==
    h.kind = "class" \/ (allow_string /\ h.kind = "str")
C8_IsFallback(h, allow_string) ==
    \/ C8_IsFallbackItem(h, allow_string)
    \/ /\ h.kind = "tuple"
       /\ h.args # <<>>
       /\ \A member \in Range(h.args) : C8_IsFallbackItem(member, allow_string)

\* C8: on a hashable object is_hint is true exactly when the object is a
\* supported PEP-compliant hint, or is not PEP-compliant and a fallback
\* form; an unsupported PEP-compliant hint is rejected.
C8_ClassificationRule ==
    (last.op = "is_hint" /\ IsHashable(last.hint)) =>
        LET pep == last.hint.kind \in HINT_PEP_KINDS
            supported == last.hint.kind \in HINT_PEP_SIGNS_SUPPORTED
        IN  /\ last.exc = ExcNone
            /\ last.bool <=>
                   \/ pep /\ supported
                   \/ ~pep /\ C8_IsFallback(last.hint, last.is_str_valid)
            /\ (pep /\ ~supported) => ~last.bool

\* C8 witness: is_hint rejected a tuple of a class and a classname where
\* strings are invalid.
C8_Witness ==
    /\ last.op = "is_hint"
    /\ last.hint = Tuple(<<int, Str("A")>>)
    /\ ~last.is_str_valid
    /\ Returned(last) /\ ~last.bool

\* C9: is_hint_ignorable is true on a union exactly when it is true on at
\* least one child: true on Union[Any, int], false on Union[int, str].
C9_IgnorabilityOr ==
    (last.op = "is_hint_ignorable" /\ last.hint.kind = "Union") =>
        /\ Returned(last)
        /\ last.bool <=>
               \E child \in Range(last.hint.args) :
                   is_hint_ignorable(child) = ReturnBool(TRUE)
        /\ last.hint = Union(<<Any, int>>) => last.bool
        /\ last.hint = Union(<<int, str>>) => ~last.bool

\* C9 witness: a union whose only ignorable child is a metadata-wrapped Any
\* was found ignorable.
C9_Witness ==
    /\ last.op = "is_hint_ignorable"
    /\ last.hint = Union(<<int, Annotated(Any, "m1")>>)
    /\ Returned(last) /\ last.bool

\* C10 (as claimed): is_hint_ignorable on a metadata-wrapped hint returns
\* what it returns on the wrapped hint, whatever the metadata.
C10_MetadataPassThrough ==
    (last.op = "is_hint_ignorable" /\ last.hint.kind = "Annotated") =>
        /\ Returned(last)
        /\ is_hint_ignorable(last.hint.args[1]) = ReturnBool(last.bool)

\* C10 (amended): so it is whenever the metadata is hashable; a hint
\* wrapping an unhashable metadata raises TypeError.
C10_MetadataPassThroughHashable ==
    (last.op = "is_hint_ignorable" /\ last.hint.kind = "Annotated") =>
        IF IsHashable(last.hint)
        THEN /\ Returned(last)
             /\ is_hint_ignorable(last.hint.args[1]) = ReturnBool(last.bool)
             /\ last.hint.args[1] = Union(<<Any, int>>) => last.bool
             /\ last.hint.args[1] = int => ~last.bool
        ELSE last.exc = TypeError

\* C10 witness: a metadata-wrapped union of Any and int was found
\* ignorable.
C10_Witness ==
    /\ last.op = "is_hint_ignorable"
    /\ last.hint = Annotated(Union(<<Any, int>>), "m1")
    /\ Returned(last) /\ last.bool

\* C11: is_hint_ignorable returns a boolean and raises nothing on every
\* hashable object; true on every shallowly ignorable hint; false on every
\* other hint that is neither a union nor metadata-wrapped, such as a class
\* or a container subscripted by an ignorable child.
C11_IgnorabilityBaseCases ==
    (last.op = "is_hint_ignorable" /\ IsHashable(last.hint)) =>
        /\ Returned(last)
        /\ last.hint \in HINTS_SHALLOW_IGNORABLE => last.bool
        /\ (/\ last.hint \notin HINTS_SHALLOW_IGNORABLE
            /\ last.hint.kind \notin {"Union", "Annotated"}) => ~last.bool

\* C11 witness: a list subscripted by Any was found unignorable.
C11_Witness ==
    /\ last.op = "is_hint_ignorable"
    /\ last.hint = List585(Any, 1)
    /\ Returned(last) /\ ~last.bool

\* ================================================ utilbeartypefunc.py
AttributeError == "AttributeError"

\* The number of set_func_beartyped calls on one callable that are told
\* apart.
MaxMarks == 2

\* hasattr(func, name).
hasattr(func, name) == name \in attrs[func]

\* @typing.no_type_check defines __no_type_check__ on the callable.
is_func_pep484_notypechecked(func) == hasattr(func, "__no_type_check__")

\* True only if Sphinx is autogenerating documentation.
is_sphinx_autodocing == sphinx

\* is_func_beartyped(func), mod lines 72-92.
is_func_beartyped(func) == ReturnBool(hasattr(func, "__beartype_wrapper"))

\* is_func_unbeartypeable(func), mod lines 22-69: __annotations__ is read
\* by getattr() with the default None.
is_func_unbeartypeable(func) ==
    LET func_annotations ==
            IF hasattr(func, "__annotations__") THEN DOMAIN annotations[func]
            ELSE {}
    IN  ReturnBool(\/ func_annotations = {}
                   \/ is_func_pep484_notypechecked(func)
                   \/ is_func_beartyped(func).bool
                   \/ is_sphinx_autodocing)

\* is_func_unbeartypeable(func) of the earlier lib/utilbeartypefunc.py,
\* lines 22-61: __annotations__ is read as a plain attribute.
lib_is_func_unbeartypeable(func) ==
    IF ~hasattr(func, "__annotations__") THEN Raise(AttributeError)
    ELSE ReturnBool(\/ DOMAIN annotations[func] = {}
                    \/ is_func_pep484_notypechecked(func)
                    \/ is_func_beartyped(func).bool
                    \/ is_sphinx_autodocing)

\* set_func_beartyped() defining the marker on the class of the callables,
\* hence on every callable, at line 111.
set_func_beartyped_on_class(func) ==
    [other \in DOMAIN attrs |-> attrs[other] \cup {"__beartype_wrapper"}]

\* set_func_beartyped() toggling the marker at line 111.
set_func_beartyped_toggles(func) ==
    [attrs EXCEPT ![func] =
        IF "__beartype_wrapper" \in @ THEN @ \ {"__beartype_wrapper"}
        ELSE @ \cup {"__beartype_wrapper"}]

\* set_func_beartyped(func), mod lines 95-111: the attributes of the
\* callables after func.__beartype_wrapper = True.
set_func_beartyped(func) ==
    [attrs EXCEPT ![func] = @ \cup {"__beartype_wrapper"}]

\* ------------------------------------------------ calls
FuncCall(op, func, r) == Call(op, func, "", NoneObj, FALSE, r)

\* The decorator marks the wrapper function it generated for a callable: a
\* pure-Python function, which defines __annotations__.
CallSetFuncBeartyped(func) ==
    /\ hasattr(func, "__annotations__")
    /\ marks[func] < MaxMarks
    /\ attrs' = set_func_beartyped(func)
    /\ marks' = [marks EXCEPT ![func] = @ + 1]
    /\ last' = FuncCall("set_func_beartyped", func, Raise(ExcNone))
    /\ UNCHANGED <<hintvars, sphinx, decor, threads, clawvars, memovars, lockvars>>

CallIsFuncBeartyped(func) ==
    /\ last' = FuncCall("is_func_beartyped", func, is_func_beartyped(func))
    /\ UNCHANGED <<hintvars, funcvars, decor, threads, clawvars, memovars, lockvars>>

CallIsFuncUnbeartypeable(func) ==
    /\ last' = FuncCall("is_func_unbeartypeable", func,
                        is_func_unbeartypeable(func))
    /\ UNCHANGED <<hintvars, funcvars, decor, threads, clawvars, memovars, lockvars>>

CallLibIsFuncUnbeartypeable(func) ==
    /\ last' = FuncCall("lib.is_func_unbeartypeable", func,
                        lib_is_func_unbeartypeable(func))
    /\ UNCHANGED <<hintvars, funcvars, decor, threads, clawvars, memovars, lockvars>>

\* Sphinx starts or stops autogenerating documentation.
SphinxAutodoc(started) ==
    /\ sphinx' = started
    /\ last' = FuncCall("sphinx", "", ReturnBool(started))
    /\ UNCHANGED <<hintvars, attrs, marks, decor, threads, clawvars, memovars, lockvars>>

\* ------------------------------------------------ specification
EmptyDict == [pith_name \in {} |-> NoneObj]

\* The attributes a callable may define before it is decorated.
AttrsBefore == SUBSET {"__annotations__", "__no_type_check__"}

\* Callables that are annotated, unannotated or define no __annotations__
\* (as the functions of the operator module), opted out or not, all
\* unmarked.
InitFunc ==
    /\ attrs \in [Funcs -> AttrsBefore]
    /\ annotations \in [Funcs -> {EmptyDict, [x |-> int]}]
    /\ \A func \in Funcs :
           ~hasattr(func, "__annotations__") => annotations[func] = EmptyDict
    /\ sphinx = FALSE
    /\ marks = [func \in Funcs |-> 0]
    /\ _HINT_REPR_TO_HINT = EmptyCache
    /\ resolved = {}
    /\ last = NoCall
    /\ arg = NoneObj
    /\ InitDecorIdle /\ InitThreadsIdle /\ InitClawIdle /\ InitMemoIdle /\ InitLockIdle

NextFunc ==
    \/ \E func \in Funcs : CallSetFuncBeartyped(func)
    \/ \E func \in Funcs : CallIsFuncBeartyped(func)
    \/ \E func \in Funcs : CallIsFuncUnbeartypeable(func)
    \/ \E func \in Funcs : CallLibIsFuncUnbeartypeable(func)
    \/ \E started \in BOOLEAN : SphinxAutodoc(started)

SpecFunc == InitFunc /\ [][NextFunc]_vars

\* ------------------------------------------------ claims
IsMarked(func) == "__beartype_wrapper" \in attrs[func]

\* True only if the callable has no annotations, opted out of type
\* checking or carries the marker, or documentation is being generated.
IsExempt(func) ==
    \/ "__annotations__" \notin attrs[func]
    \/ DOMAIN annotations[func] = {}
    \/ "__no_type_check__" \in attrs[func]
    \/ IsMarked(func)
    \/ sphinx

\* C12: every call of is_func_unbeartypeable returns true exactly when, at
\* the moment of the call, the callable has no annotations, opted out of
\* type checking or carries the marker, or documentation is being
\* generated.
C12_ExemptionPredicate ==
    [][last'.op \in {"is_func_unbeartypeable", "lib.is_func_unbeartypeable"}
           => /\ Returned(last')
              /\ last'.bool <=> IsExempt(last'.func)]_vars

C14_MarkerIdempotence ==
    [][\A func \in Funcs :
           (/\ last'.op = "set_func_beartyped" /\ last'.func = func
            /\ marks'[func] >= 2) =>
               /\ Returned(last')
               /\ attrs' = attrs
               /\ annotations' = annotations
               /\ (is_func_beartyped(func).bool)']_vars

\* C14 witness: set_func_beartyped was called twice on the annotated f.
C14_Witness ==
    /\ last.op = "set_func_beartyped" /\ last.func = "f"
    /\ marks["f"] = 2
    /\ annotations["f"] = [x |-> int]
    /\ IsMarked("f")

\* ================================================ decoration of a callable
\* The parameters of f(x, y) in the order of their declaration.
DeclaredPiths == <<"x", "y">>

\* The decorator resolves the hint annotating the next parameter of f; an
\* exception raised by the resolution is raised by the decorator, which
\* ends the decoration.
DecorResolveNext ==
    /\ decor.status = "resolving"
    /\ decor.next <= Len(DeclaredPiths)
    /\ LET pith_name == DeclaredPiths[decor.next]
           hint == annotations["f"][pith_name]
           r == cache_hint_nonpep563("f", pith_name, hint)
       IN  /\ annotations' = r.annotations
           /\ _HINT_REPR_TO_HINT' = r.cache
           /\ resolved' = IF r.exc = ExcNone
                          THEN resolved \cup {<<hint, r.val>>}
                          ELSE resolved
           /\ last' = Call("cache_hint_nonpep563", "f", pith_name, hint,
                           TRUE, r)
           /\ decor' = IF r.exc = ExcNone
                       THEN [decor EXCEPT !.next = @ + 1]
                       ELSE [decor EXCEPT !.status = "aborted",
                                          !.exc = r.exc]
    /\ UNCHANGED <<arg, funcvars, threads, clawvars, memovars, lockvars>>

\* Every hint is resolved: the decorator marks the callable as decorated.
DecorFinish ==
    /\ decor.status = "resolving"
    /\ decor.next > Len(DeclaredPiths)
    /\ attrs' = set_func_beartyped("f")
    /\ marks' = [marks EXCEPT !["f"] = @ + 1]
    /\ decor' = [decor EXCEPT !.status = "done"]
    /\ last' = FuncCall("set_func_beartyped", "f", Raise(ExcNone))
    /\ UNCHANGED <<hintvars, sphinx, threads, clawvars, memovars, lockvars>>

\* The decoration of f(x, y), annotated by any two raw hints.
InitDecor ==
    /\ \E hint_x \in RawHints("f"), hint_y \in RawHints("f") :
           /\ annotations = [func \in Funcs |->
                                IF func = "f"
                                THEN [x |-> hint_x, y |-> hint_y]
                                ELSE [y |-> int]]
           /\ decor = [status |-> "resolving", next |-> 1, exc |-> ExcNone,
                       raw |-> [x |-> hint_x, y |-> hint_y]]
    /\ _HINT_REPR_TO_HINT = EmptyCache
    /\ resolved = {}
    /\ last = NoCall
    /\ arg = NoneObj
    /\ InitFuncIdle /\ InitThreadsIdle /\ InitClawIdle /\ InitMemoIdle /\ InitLockIdle

NextDecor == DecorResolveNext \/ DecorFinish

SpecDecor == InitDecor /\ [][NextDecor]_vars

\* ------------------------------------------------ claims
\* The hint left in the slot by the coercion of lines 234-237.
SlotCoerced(hint) ==
    IF hint.kind = "tuple" /\ Union__getitem__(hint.args).exc = ExcNone
    THEN Union__getitem__(hint.args).val
    ELSE hint

\* The exception the resolution of a raw hint raises, if any.
SlotError(hint) ==
    IF hint.kind = "tuple" /\ Union__getitem__(hint.args).exc # ExcNone
    THEN Union__getitem__(hint.args).exc
    ELSE die_unless_hint(SlotCoerced(hint), TRUE)

\* The positions of the parameters of f whose raw hint fails to resolve.
Failing == {i \in DOMAIN DeclaredPiths :
               SlotError(decor.raw[DeclaredPiths[i]]) # ExcNone}

\* The decoration of f ended in the exception of its first failing slot,
\* f unmarked.
AbortedOnFirstFailure ==
    /\ decor.status = "aborted"
    /\ Failing # {}
    /\ \E i \in Failing :
           /\ \A j \in Failing : i <= j
           /\ decor.exc = SlotError(decor.raw[DeclaredPiths[i]])
           /\ last.exc = decor.exc
           /\ last.pith_name = DeclaredPiths[i]
    /\ ~IsMarked("f")

\* The decoration of f ended with every slot resolved, f marked.
DecoratedWhole ==
    /\ decor.status = "done"
    /\ Failing = {}
    /\ \A i \in DOMAIN DeclaredPiths :
           annotations["f"][DeclaredPiths[i]] =
               SlotCoerced(decor.raw[DeclaredPiths[i]])
    /\ IsMarked("f")

\* C15 (as claimed): the decoration of a callable ends either with every
\* slot resolved and the callable decorated, or in the exception of the
\* first failing slot with the callable undecorated and none of its slots
\* rewritten.
C15_NoPartialSuccess ==
    decor.status \in {"aborted", "done"} =>
        \/ DecoratedWhole
        \/ AbortedOnFirstFailure /\ annotations["f"] = decor.raw

\* C15 (amended): ... or in the exception of the first failing slot with
\* the callable undecorated, the slots before the failing one rewritten to
\* their resolved hints, the failing slot rewritten if its coercion
\* succeeded, and the slots after it untouched.
C15_NoPartialSuccessAmended ==
    /\ decor.status \in {"aborted", "done"} =>
           \/ DecoratedWhole
           \/ /\ AbortedOnFirstFailure
              /\ \A i \in DOMAIN DeclaredPiths :
                     annotations["f"][DeclaredPiths[i]] =
                         IF \E j \in Failing : j < i
                         THEN decor.raw[DeclaredPiths[i]]
                         ELSE SlotCoerced(decor.raw[DeclaredPiths[i]])
    /\ decor.status = "resolving" => ~IsMarked("f")

\* C15 witness: the decoration of f(x: (int, str), y: 42) ended in the
\* exception of y, with x rewritten to a union.
C15_Witness ==
    /\ decor.status = "aborted"
    /\ decor.raw = [x |-> Tuple(<<int, str>>), y |-> IntObj]
    /\ annotations["f"] = [x |-> Union(<<int, str>>), y |-> IntObj]
    /\ decor.exc = NonPep
    /\ ~IsMarked("f")

\* ================================================ threads
\* Two threads call cache_hint_nonpep563: the first on the hint of f's
\* parameter x, the second on the hint of g's parameter y.  A thread is
\* at the statement it executes next; the statements of a thread interleave
\* with those of the other in any order.  The function takes no lock and
\* neither reads nor writes _HINT_REPR_TO_HINT.
Threads == {1, 2}
ThreadFunc(t) == IF t = 1 THEN "f" ELSE "g"
ThreadPith(t) == IF t = 1 THEN "x" ELSE "y"

\* Lines 234-237 assigning the coerced hint to the local variable only.
ThreadCoerce_local_only(t) ==
    /\ threads[t].pc = "coerce"
    /\ LET hint == threads[t].hint
           coerced == IF hint.kind = "tuple" THEN Union__getitem__(hint.args)
                      ELSE ReturnObj(hint)
       IN  threads' = IF coerced.exc # ExcNone
                      THEN [threads EXCEPT ![t].pc = "raised",
                                           ![t].exc = coerced.exc]
                      ELSE [threads EXCEPT ![t].pc = "validate",
                                           ![t].hint = coerced.val]
    /\ UNCHANGED <<hintvars, last, funcvars, decor, clawvars, memovars, lockvars>>

\* Lines 234-237: the coercion of a tuple union, assigned to the local
\* variable and to the slot.
ThreadCoerce(t) ==
    /\ threads[t].pc = "coerce"
    /\ LET hint == threads[t].hint
           coerced == IF hint.kind = "tuple" THEN Union__getitem__(hint.args)
                      ELSE ReturnObj(hint)
       IN  IF coerced.exc # ExcNone
           THEN /\ threads' = [threads EXCEPT ![t].pc = "raised",
                                              ![t].exc = coerced.exc]
                /\ UNCHANGED annotations
           ELSE /\ threads' = [threads EXCEPT ![t].pc = "validate",
                                              ![t].hint = coerced.val]
                /\ annotations' =
                       IF hint.kind = "tuple"
                       THEN [annotations EXCEPT
                                ![ThreadFunc(t)][ThreadPith(t)] = coerced.val]
                       ELSE annotations
    /\ UNCHANGED <<_HINT_REPR_TO_HINT, resolved, last, arg, funcvars, decor,
                   clawvars, memovars, lockvars>>

\* Line 242: the validation of the hint.
ThreadValidate(t) ==
    /\ threads[t].pc = "validate"
    /\ LET died == die_unless_hint(threads[t].hint, TRUE) IN
       threads' = IF died # ExcNone
                  THEN [threads EXCEPT ![t].pc = "raised", ![t].exc = died]
                  ELSE [threads EXCEPT ![t].pc = "return"]
    /\ UNCHANGED <<hintvars, last, funcvars, decor, clawvars, memovars, lockvars>>

\* Line 247: the return of the hint.
ThreadReturn(t) ==
    /\ threads[t].pc = "return"
    /\ threads' = [threads EXCEPT ![t].pc = "done", ![t].val = threads[t].hint]
    /\ resolved' = resolved \cup {<<threads[t].raw, threads[t].hint>>}
    /\ UNCHANGED <<annotations, _HINT_REPR_TO_HINT, last, arg, funcvars,
                   decor, clawvars, memovars, lockvars>>

\* A callable that is no class, such as the builtin len: accepted as the
\* parameter of a union, and no type hint.
FuncObj == Obj("function", "len", <<>>, 0)

\* The hints the threads resolve: the raw hints and the tuple of that
\* callable alone, whose coercion succeeds and whose validation fails.
ThreadHints(func) == RawHints(func) \cup {Tuple(<<FuncObj>>)}

InitThreads ==
    /\ \E hint_x \in ThreadHints("f"), hint_y \in ThreadHints("g") :
           /\ annotations = [func \in Funcs |->
                                IF func = "f" THEN [x |-> hint_x]
                                ELSE [y |-> hint_y]]
           /\ threads = [t \in Threads |->
                            [pc |-> "coerce",
                             raw |-> IF t = 1 THEN hint_x ELSE hint_y,
                             hint |-> IF t = 1 THEN hint_x ELSE hint_y,
                             exc |-> ExcNone, val |-> NoneObj]]
    /\ _HINT_REPR_TO_HINT = EmptyCache
    /\ resolved = {}
    /\ last = NoCall
    /\ arg = NoneObj
    /\ InitFuncIdle /\ InitDecorIdle /\ InitClawIdle /\ InitMemoIdle /\ InitLockIdle

NextThreads ==
    \E t \in Threads : ThreadCoerce(t) \/ ThreadValidate(t) \/ ThreadReturn(t)

SpecThreads == InitThreads /\ [][NextThreads]_vars

\* ------------------------------------------------ claims
\* C16: when both threads have resolved two distinct instances of one
\* hint that does not cache itself, both were returned the same instance
\* and the type hint cache holds that instance, and no other, for the
\* representation of the hint.
C16_IdentityCacheAtomicity ==
    (/\ \A t \in Threads : threads[t].pc = "done"
     /\ threads[1].raw # threads[2].raw
     /\ Repr(threads[1].raw) = Repr(threads[2].raw)
     /\ threads[1].raw.kind = "list") =>
        /\ threads[1].val = threads[2].val
        /\ Repr(threads[1].raw) \in DOMAIN _HINT_REPR_TO_HINT
        /\ _HINT_REPR_TO_HINT[Repr(threads[1].raw)] = threads[1].val

\* ================================================ clawpkgadd.py
\* The registry is the trie package_basename_to_subpackages of nested
\* PackageBasenameToSubpackages dictionaries: the model maps the sequence
\* of basenames leading to a node of the trie (the empty sequence for the
\* root) to the conf_if_added of that node.
None == "None"
BeartypeClawRegistrationException == "BeartypeClawRegistrationException"

\* The beartype configurations (BeartypeConf caches its instances, so equal
\* configurations are one instance) and an object that is none.
BeartypeConfs == {"c1", "c2"}
NotConf == "{}"

\* An item of package_names that is no string.
IntItem == "42"

\* package_name.split('.') on the package names of the model.
split(package_name) ==
    CASE package_name = "a" -> <<"a">>
      [] package_name = "a.b" -> <<"a", "b">>
      [] package_name = "a.bc" -> <<"a", "bc">>
      [] package_name = "a.c" -> <<"a", "c">>
      [] package_name = "a.b.c" -> <<"a", "b", "c">>
      [] package_name = "beartype" -> <<"beartype">>
      [] package_name = "beartype.claw" -> <<"beartype", "claw">>
      [] package_name = "beartype_x" -> <<"beartype_x">>
      [] package_name = "a..b" -> <<"a", "", "b">>
      [] package_name = "" -> <<"">>

\* True only if the string is a "."-delimited concatenation of Python
\* identifiers.
is_identifier(text) == \A i \in DOMAIN split(text) : split(text)[i] # ""

\* The argument package_names: a string, a tuple of items or an object
\* that is not iterable.
PkgStr(package_name) == [kind |-> "str", items |-> <<package_name>>]
PkgTuple(items) == [kind |-> "tuple", items |-> items]
PkgInt == [kind |-> "int", items |-> <<>>]

\* is_packages_registered_any(), lines 37-59: the truth value of the root
\* dictionary, which is whether it has a key.
is_packages_registered_any ==
    \E path \in DOMAIN package_basename_to_subpackages : path # <<>>

\* Lines 150-177: the loop over the basenames not yet visited, from the
\* node at path.
RECURSIVE get_package_conf_loop(_, _, _)
get_package_conf_loop(path, package_basenames, package_conf_if_added) ==
    IF package_basenames = <<>> THEN package_conf_if_added
    ELSE LET package_subpackages == Append(path, Head(package_basenames)) IN
         IF package_subpackages \notin DOMAIN package_basename_to_subpackages
         THEN package_conf_if_added
         ELSE LET conf_if_added ==
                      package_basename_to_subpackages[package_subpackages]
              IN  get_package_conf_loop(
                      package_subpackages, Tail(package_basenames),
                      IF conf_if_added # None THEN conf_if_added
                      ELSE package_conf_if_added)

\* get_package_conf_if_added() without the fallback on the configuration
\* of the parent packages at lines 171-173.
RECURSIVE get_package_conf_loop_no_fallback(_, _, _)
get_package_conf_loop_no_fallback(path, package_basenames,
                                  package_conf_if_added) ==
    IF package_basenames = <<>> THEN package_conf_if_added
    ELSE LET package_subpackages == Append(path, Head(package_basenames)) IN
         IF package_subpackages \notin DOMAIN package_basename_to_subpackages
         THEN package_conf_if_added
         ELSE get_package_conf_loop_no_fallback(
                  package_subpackages, Tail(package_basenames),
                  package_basename_to_subpackages[package_subpackages])

get_package_conf_if_added_no_fallback(package_name) ==
    LET package_basenames == split(package_name) IN
    IF package_basenames[1] = "beartype" THEN None
    ELSE get_package_conf_loop_no_fallback(
             <<>>, package_basenames, package_basename_to_subpackages[<<>>])

\* get_package_conf_if_added() testing package_name.startswith('beartype')
\* at line 130.
get_package_conf_if_added_startswith(package_name) ==
    LET package_basenames == split(package_name) IN
    IF package_name \in {"beartype", "beartype.claw", "beartype_x"} THEN None
    ELSE get_package_conf_loop(
             <<>>, package_basenames, package_basename_to_subpackages[<<>>])

\* get_package_conf_if_added(package_name), lines 63-180.
get_package_conf_if_added(package_name) ==
    LET package_basenames == split(package_name) IN
    IF package_basenames[1] = "beartype" THEN None
    ELSE get_package_conf_loop(
             <<>>, package_basenames, package_basename_to_subpackages[<<>>])

\* The outcome of a registration with the registry it leaves behind.
Registered(exc, trie) == [exc |-> exc, trie |-> trie]

\* add_packages_all() assigning the configuration whatever the current one
\* at line 236.
add_packages_all_overwrites(conf) ==
    IF conf \notin BeartypeConfs
    THEN Registered(BeartypeClawRegistrationException,
                    package_basename_to_subpackages)
    ELSE Registered(ExcNone,
                    [package_basename_to_subpackages EXCEPT ![<<>>] = conf])

\* add_packages_all(conf), lines 184-252.
add_packages_all(conf) ==
    IF conf \notin BeartypeConfs
    THEN Registered(BeartypeClawRegistrationException,
                    package_basename_to_subpackages)
    ELSE LET conf_curr == package_basename_to_subpackages[<<>>] IN
         IF conf_curr = None
         THEN Registered(ExcNone,
                  [package_basename_to_subpackages EXCEPT ![<<>>] = conf])
         ELSE IF conf_curr # conf
         THEN Registered(BeartypeClawRegistrationException,
                         package_basename_to_subpackages)
         ELSE Registered(ExcNone, package_basename_to_subpackages)

\* Lines 384-411: the trie with the nodes leading to the package, those
\* missing created with no configuration.
AddNodes(trie, package_basenames) ==
    LET created == {SubSeq(package_basenames, 1, k) :
                       k \in 1..Len(package_basenames)}
    IN  [path \in DOMAIN trie \cup created |->
            IF path \in DOMAIN trie THEN trie[path] ELSE None]

\* add_packages() assigning the configuration whatever the current one at
\* line 421.
RECURSIVE add_packages_loop_overwrites(_, _, _)
add_packages_loop_overwrites(trie, package_names, conf) ==
    IF package_names = <<>> THEN Registered(ExcNone, trie)
    ELSE LET package_basenames == split(Head(package_names))
             created == AddNodes(trie, package_basenames)
         IN  add_packages_loop_overwrites(
                 [created EXCEPT ![package_basenames] = conf],
                 Tail(package_names), conf)

\* Lines 363-443: the registration of the packages not yet visited.
RECURSIVE add_packages_loop(_, _, _)
add_packages_loop(trie, package_names, conf) ==
    IF package_names = <<>> THEN Registered(ExcNone, trie)
    ELSE LET package_basenames == split(Head(package_names))
             created == AddNodes(trie, package_basenames)
             conf_curr == created[package_basenames]
         IN  IF conf_curr = None
             THEN add_packages_loop(
                      [created EXCEPT ![package_basenames] = conf],
                      Tail(package_names), conf)
             ELSE IF conf_curr # conf
             THEN Registered(BeartypeClawRegistrationException, created)
             ELSE add_packages_loop(created, Tail(package_names), conf)

\* Lines 320-358: the validation of the arguments, before any
\* registration.
add_packages_invalid(package_names, conf) ==
    \/ conf \notin BeartypeConfs
    \/ package_names.kind = "int"
    \/ package_names.items = <<>>
    \/ \E i \in DOMAIN package_names.items :
           \/ package_names.items[i] = IntItem
           \/ ~is_identifier(package_names.items[i])

add_packages_overwrites(package_names, conf) ==
    IF add_packages_invalid(package_names, conf)
    THEN Registered(BeartypeClawRegistrationException,
                    package_basename_to_subpackages)
    ELSE add_packages_loop_overwrites(package_basename_to_subpackages,
                                      package_names.items, conf)

\* add_packages() validating each package name at lines 344-358 only when
\* its turn to be registered comes.
add_packages_validates_lazily(package_names, conf) ==
    IF \/ conf \notin BeartypeConfs
       \/ package_names.kind = "int"
       \/ package_names.items = <<>>
    THEN Registered(BeartypeClawRegistrationException,
                    package_basename_to_subpackages)
    ELSE LET items == package_names.items
             invalid == {i \in DOMAIN items :
                            \/ items[i] = IntItem
                            \/ ~is_identifier(items[i])}
             valid == IF invalid = {} THEN items
                      ELSE SubSeq(items, 1,
                               (CHOOSE i \in invalid :
                                    \A j \in invalid : i <= j) - 1)
             r == add_packages_loop(package_basename_to_subpackages, valid,
                                    conf)
         IN  IF invalid = {} THEN r
             ELSE Registered(BeartypeClawRegistrationException, r.trie)

\* add_packages(package_names, conf), lines 260-443.
add_packages(package_names, conf) ==
    IF add_packages_invalid(package_names, conf)
    THEN Registered(BeartypeClawRegistrationException,
                    package_basename_to_subpackages)
    ELSE add_packages_loop(package_basename_to_subpackages,
                           package_names.items, conf)

\* packages_unadded(), lines 447-477: the registry after the with-block,
\* whether it returned or raised.  clear() removes the keys of the root
\* dictionary, hence every node below the root; the attribute conf_if_added
\* of the root is no key and stays.
packages_unadded ==
    [path \in {<<>>} |-> package_basename_to_subpackages[<<>>]]

\* ------------------------------------------------ universe
\* The most items of a tuple of package names.
MaxNames == 2

\* The package names passed as a string, valid or not.
StrNames == {"a", "a.b", "beartype", "beartype_x", "", "a..b"}

\* The items of the tuples of package names.
TupleItems == {"a", "a.b", IntItem}

PackageNamesArgs ==
    {PkgStr(package_name) : package_name \in StrNames}
    \cup {PkgTuple(items) : items \in SeqsOf(TupleItems, 0, MaxNames)}
    \cup {PkgInt}

\* The argument conf passed with package_names: a configuration, or with
\* the package name 'a' an object that is none.
ConfArgs(package_names) ==
    IF package_names = PkgStr("a") THEN BeartypeConfs \cup {NotConf}
    ELSE BeartypeConfs

\* The packages whose configuration is looked up.
LookupNames == {"a", "a.b", "a.bc", "a.b.c", "beartype", "beartype.claw",
                "beartype_x"}

\* ------------------------------------------------ calls
ClawCall(op, package_names, conf, exc, ret) ==
    [op |-> op, package_names |-> package_names, conf |-> conf, exc |-> exc,
     ret |-> ret]

CallAddPackages(package_names, conf) ==
    LET r == add_packages(package_names, conf) IN
    /\ package_basename_to_subpackages' = r.trie
    /\ last' = ClawCall("add_packages", package_names, conf, r.exc, None)
    /\ UNCHANGED <<hintvars, funcvars, decor, threads, memovars, lockvars>>

CallAddPackagesAll(conf) ==
    LET r == add_packages_all(conf) IN
    /\ package_basename_to_subpackages' = r.trie
    /\ last' = ClawCall("add_packages_all", PkgInt, conf, r.exc, None)
    /\ UNCHANGED <<hintvars, funcvars, decor, threads, memovars, lockvars>>

CallGetPackageConfIfAdded(package_name) ==
    /\ last' = ClawCall("get_package_conf_if_added", PkgStr(package_name),
                        None, ExcNone,
                        get_package_conf_if_added(package_name))
    /\ UNCHANGED <<hintvars, funcvars, decor, threads, clawvars, memovars, lockvars>>

CallIsPackagesRegisteredAny ==
    /\ last' = ClawCall("is_packages_registered_any", PkgInt, None, ExcNone,
                        IF is_packages_registered_any THEN "True"
                        ELSE "False")
    /\ UNCHANGED <<hintvars, funcvars, decor, threads, clawvars, memovars, lockvars>>

\* A with-block of packages_unadded(), entered earlier (which changes
\* nothing), exits: by the return of its body or by an exception the body
\* raised, which the context manager raises again.
ExitPackagesUnadded(raised) ==
    /\ package_basename_to_subpackages' = packages_unadded
    /\ last' = ClawCall("packages_unadded", PkgInt, None,
                        IF raised THEN "Exception" ELSE ExcNone, None)
    /\ UNCHANGED <<hintvars, funcvars, decor, threads, memovars, lockvars>>

\* ------------------------------------------------ specification
InitClaw ==
    /\ InitClawIdle /\ InitMemoIdle /\ InitLockIdle
    /\ annotations = [func \in Funcs |->
                         IF func = "f" THEN [x |-> int] ELSE [y |-> int]]
    /\ _HINT_REPR_TO_HINT = EmptyCache
    /\ resolved = {}
    /\ last = ClawCall("none", PkgInt, None, ExcNone, None)
    /\ arg = NoneObj
    /\ InitFuncIdle /\ InitDecorIdle /\ InitThreadsIdle

NextClaw ==
    \/ \E package_names \in PackageNamesArgs :
           \E conf \in ConfArgs(package_names) :
               CallAddPackages(package_names, conf)
    \/ \E conf \in BeartypeConfs \cup {NotConf} : CallAddPackagesAll(conf)
    \/ \E package_name \in LookupNames :
           CallGetPackageConfIfAdded(package_name)
    \/ CallIsPackagesRegisteredAny
    \/ \E raised \in BOOLEAN : ExitPackagesUnadded(raised)

SpecClaw == InitClaw /\ [][NextClaw]_vars

\* ------------------------------------------------ claims
IsLookup(call) == call.op = "get_package_conf_if_added"
LookedUp(call) == call.package_names.items[1]

\* The configuration a package is registered with, None if it is not.
ConfOf(path) ==
    IF path \in DOMAIN package_basename_to_subpackages
    THEN package_basename_to_subpackages[path]
    ELSE None

\* The lengths of the prefixes of the name of a package that are names of
\* registered packages.
RegisteredPrefixes(package_name) ==
    {k \in 1..Len(split(package_name)) :
        ConfOf(SubSeq(split(package_name), 1, k)) # None}

\* The configuration of the longest registered prefix of the name of a
\* package; failing that the configuration of all packages; failing that
\* None.
LongestPrefixConf(package_name) ==
    IF RegisteredPrefixes(package_name) = {} THEN ConfOf(<<>>)
    ELSE LET k == CHOOSE k \in RegisteredPrefixes(package_name) :
                      \A j \in RegisteredPrefixes(package_name) : j <= k
         IN  ConfOf(SubSeq(split(package_name), 1, k))

\* C17: get_package_conf_if_added on a package outside beartype returns
\* the configuration of the longest registered prefix of its name, failing
\* that the configuration of all packages, failing that None; neither 'a'
\* nor 'a.bc' inherits the configuration of 'a.b'.
C17_ConfigurationLookup ==
    (IsLookup(last) /\ split(LookedUp(last))[1] # "beartype") =>
        /\ last.exc = ExcNone
        /\ last.ret = LongestPrefixConf(LookedUp(last))
        /\ (LookedUp(last) \in {"a", "a.bc"}) =>
               last.ret = IF ConfOf(<<"a">>) # None THEN ConfOf(<<"a">>)
                          ELSE ConfOf(<<>>)

\* C17 witness: with 'a.b' alone registered, the lookup of 'a.bc' returned
\* None.
C17_Witness ==
    /\ IsLookup(last) /\ LookedUp(last) = "a.bc"
    /\ last.ret = None
    /\ ConfOf(<<"a", "b">>) = "c1"
    /\ ConfOf(<<"a">>) = None /\ <<"a">> \in DOMAIN package_basename_to_subpackages

\* The packages named by the argument package_names.
NamedPaths(package_names) ==
    {split(package_names.items[i]) :
        i \in {j \in DOMAIN package_names.items :
                  package_names.items[j] # IntItem}}

\* C18: an add_packages call naming a package registered with another
\* configuration raises the registration exception and leaves the package
\* its configuration; a call naming only packages registered with that
\* same configuration raises nothing and leaves the registry as it was.
C18_ConflictingReregistration ==
    [][last'.op = "add_packages" =>
           /\ \A path \in NamedPaths(last'.package_names) :
                  (ConfOf(path) # None /\ ConfOf(path) # last'.conf) =>
                      /\ last'.exc = BeartypeClawRegistrationException
                      /\ ConfOf(path)' = ConfOf(path)
           /\ (/\ last'.package_names.items # <<>>
               /\ \A i \in DOMAIN last'.package_names.items :
                      /\ last'.package_names.items[i] # IntItem
                      /\ ConfOf(split(last'.package_names.items[i]))
                             = last'.conf) =>
                  /\ last'.exc = ExcNone
                  /\ UNCHANGED package_basename_to_subpackages]_vars

\* C18 witness: 'a.b' is registered with c1 and its registration with c2
\* raised.
C18_Witness ==
    /\ last.op = "add_packages"
    /\ last.package_names = PkgStr("a.b") /\ last.conf = "c2"
    /\ last.exc = BeartypeClawRegistrationException
    /\ ConfOf(<<"a", "b">>) = "c1"

\* C19: add_packages_all stores the configuration if none is stored,
\* does nothing if that same configuration is stored, and otherwise raises
\* the registration exception and leaves the stored configuration.
C19_GlobalRegistration ==
    [][(last'.op = "add_packages_all" /\ last'.conf \in BeartypeConfs) =>
           IF ConfOf(<<>>) = None
           THEN /\ last'.exc = ExcNone
                /\ package_basename_to_subpackages' =
                       [package_basename_to_subpackages EXCEPT
                           ![<<>>] = last'.conf]
           ELSE /\ last'.exc = IF ConfOf(<<>>) = last'.conf THEN ExcNone
                               ELSE BeartypeClawRegistrationException
                /\ UNCHANGED package_basename_to_subpackages]_vars

\* C19 witness: all packages are registered with c1 and their registration
\* with c2 raised.
C19_Witness ==
    /\ last.op = "add_packages_all" /\ last.conf = "c2"
    /\ last.exc = BeartypeClawRegistrationException
    /\ ConfOf(<<>>) = "c1"

\* C20: whatever is registered, get_package_conf_if_added returns None for
\* 'beartype' and its subpackages, and for 'beartype_x' what it returns for
\* a package outside beartype.
C20_SelfExclusion ==
    /\ get_package_conf_if_added("beartype") = None
    /\ get_package_conf_if_added("beartype.claw") = None
    /\ get_package_conf_if_added("beartype_x")
           = LongestPrefixConf("beartype_x")
    /\ IsLookup(last) =>
           /\ LookedUp(last) \in {"beartype", "beartype.claw"} =>
                  last.ret = None
           /\ LookedUp(last) = "beartype_x" =>
                  last.ret = LongestPrefixConf("beartype_x")

\* C20 witness: with 'beartype' and all packages registered, the lookup of
\* 'beartype.claw' returned None.
C20_Witness ==
    /\ IsLookup(last) /\ LookedUp(last) = "beartype.claw"
    /\ last.ret = None
    /\ ConfOf(<<"beartype">>) = "c1"
    /\ ConfOf(<<>>) = "c2"
    /\ ConfOf(<<"beartype_x">>) = "c1"

\* C21: once a with-block of packages_unadded() has exited, by a return or
\* by an exception, and until the next registration, no package is
\* registered: is_packages_registered_any() is false and
\* get_package_conf_if_added returns None for every package.
C21_Unregistration ==
    [][last'.op = "packages_unadded" =>
           /\ ~is_packages_registered_any'
           /\ \A package_name \in LookupNames :
                  get_package_conf_if_added(package_name)' = None]_vars

\* C22: is_packages_registered_any() is true exactly when
\* get_package_conf_if_added returns a configuration for some package
\* outside beartype.
C22_RegistrationFlag ==
    is_packages_registered_any <=>
        \E package_name \in LookupNames :
            /\ split(package_name)[1] # "beartype"
            /\ get_package_conf_if_added(package_name) # None

C24_CachePopulation ==
    (IsResolve(last) /\ Returned(last) /\ ~IsSelfCached(last.hint)) =>
        /\ Repr(last.hint) \in DOMAIN _HINT_REPR_TO_HINT
        /\ _HINT_REPR_TO_HINT[Repr(last.hint)] = last.val

\* ------------------------------------------------ the memo of is_hint
\* callable_cached with its memo, a dictionary from the positional
\* parameters of a call to the value the call returned: an unhashable
\* parameter raises TypeError, parameters seen before return the value
\* stored, and new parameters run the body and store what it returned.
callable_cached_memo(memo, params, is_hashable, body) ==
    IF ~is_hashable THEN [r |-> Raise(TypeError), memo |-> memo]
    ELSE IF params \in DOMAIN memo THEN [r |-> memo[params], memo |-> memo]
    ELSE [r |-> body,
          memo |-> [key \in DOMAIN memo \cup {params} |->
                        IF key = params THEN body ELSE memo[key]]]

\* The parameters of is_hint() without the flag.
is_hint_params_hint_only(hint, is_str_valid) == <<hint>>

\* The positional parameters of is_hint(), lines 131-137, as
\* die_unless_hint() passes them at line 103.
is_hint_params(hint, is_str_valid) == <<hint, is_str_valid>>

\* @callable_cached is_hint(hint, is_str_valid) with its memo: the outcome
\* of the call and the memo after it.
is_hint_memoized(memo, hint, is_str_valid) ==
    callable_cached_memo(memo, is_hint_params(hint, is_str_valid),
                         IsHashable(hint),
                         ReturnBool(is_hint_body(hint, is_str_valid)))

\* Lines 107-128 of die_unless_hint(): the exception raised for an object
\* that is_hint() rejected, ExcNone when none is.
die_unless_hint_slow_path(hint, is_str_valid) ==
    LET pep == IF is_hint_pep(hint) THEN die_unless_hint_pep_supported(hint)
               ELSE ExcNone
    IN  IF pep # ExcNone THEN pep
        ELSE die_unless_hint_nonpep(hint, is_str_valid)

\* die_unless_hint() with the memo of is_hint(): the exception raised,
\* ExcNone when the call returns, and the memo after it.
die_unless_hint_memoized(memo, hint, is_str_valid) ==
    LET tested == is_hint_memoized(memo, hint, is_str_valid) IN
    [exc |-> IF tested.r.exc # ExcNone THEN tested.r.exc
             ELSE IF tested.r.bool THEN ExcNone
             ELSE die_unless_hint_slow_path(hint, is_str_valid),
     memo |-> tested.memo]

\* The objects tested: the name of a class, a class, a tuple holding the
\* name of a class, an unsupported PEP-compliant hint, and two objects that
\* are no hints, the second unhashable.
MemoHints ==
    {Str("A"), int, Tuple(<<int, Str("A")>>), Literal, IntObj, ListObj}

CallIsHintMemoized ==
    \E hint \in MemoHints, is_str_valid \in BOOLEAN :
        LET m == is_hint_memoized(params_flat_to_return_value, hint,
                                  is_str_valid)
        IN  /\ params_flat_to_return_value' = m.memo
            /\ last' = Call("is_hint", "", "", hint, is_str_valid, m.r)
            /\ UNCHANGED <<hintvars, funcvars, decor, threads, clawvars,
                           lockvars>>

CallDieUnlessHintMemoized ==
    \E hint \in MemoHints, is_str_valid \in BOOLEAN :
        LET m == die_unless_hint_memoized(params_flat_to_return_value, hint,
                                          is_str_valid)
        IN  /\ params_flat_to_return_value' = m.memo
            /\ last' = Call("die_unless_hint", "", "", hint, is_str_valid,
                            Raise(m.exc))
            /\ UNCHANGED <<hintvars, funcvars, decor, threads, clawvars,
                           lockvars>>

InitMemo ==
    /\ annotations = [func \in Funcs |-> [p \in {} |-> NoneObj]]
    /\ _HINT_REPR_TO_HINT = EmptyCache
    /\ resolved = {}
    /\ last = NoCall
    /\ arg = NoneObj
    /\ InitFuncIdle /\ InitDecorIdle /\ InitThreadsIdle /\ InitClawIdle
    /\ InitMemoIdle /\ InitLockIdle

NextMemo == CallIsHintMemoized \/ CallDieUnlessHintMemoized

SpecMemo == InitMemo /\ [][NextMemo]_vars

\* C25: every call of the memoized is_hint on a hashable object returns
\* what the body of is_hint returns for the same object and flag, and
\* die_unless_hint, which tests through the memo, raises what it raises
\* without a memo; the name of a class is a hint with the flag and none
\* without it, whatever was called before.
C25_MemoizationTransparency ==
    /\ (last.op = "is_hint" /\ IsHashable(last.hint)) =>
           /\ last.exc = ExcNone
           /\ last.bool = is_hint_body(last.hint, last.is_str_valid)
           /\ last.hint = Str("A") => last.bool = last.is_str_valid
    /\ (last.op = "die_unless_hint" /\ IsHashable(last.hint)) =>
           last.exc =
               IF is_hint_body(last.hint, last.is_str_valid) THEN ExcNone
               ELSE die_unless_hint_slow_path(last.hint, last.is_str_valid)

\* C25 witness: is_hint returns false for the name of a class without the
\* flag, from the memo, after it returned true for that name with the flag.
C25_Witness ==
    /\ last.op = "is_hint" /\ last.hint = Str("A")
    /\ ~last.is_str_valid /\ ~last.bool
    /\ <<Str("A"), TRUE>> \in DOMAIN params_flat_to_return_value
    /\ params_flat_to_return_value[<<Str("A"), TRUE>>].bool

\* The case of C26: a tuple of classes or classnames with one member, or
\* with equal members at two positions, was resolved.
C26_Case ==
    /\ IsResolve(last)
    /\ last.hint.kind = "tuple"
    /\ Len(last.hint.args) >= 1
    /\ \A i \in DOMAIN last.hint.args : IsClassOrName(last.hint.args[i])
    /\ Len(last.hint.args) = 1 \/ ~IsInjective(last.hint.args)

AsChild(member) ==
    IF member.kind = "str" THEN ForwardRef(member.name) ELSE member

\* The first position of x in the sequence s.
FirstAt(s, x) ==
    CHOOSE i \in DOMAIN s : s[i] = x /\ \A j \in 1..(i - 1) : s[j] # x

C27_NoAnnotationsAttribute ==
    [][\A func \in Funcs :
           (/\ last'.op \in {"is_func_unbeartypeable",
                             "lib.is_func_unbeartypeable"}
            /\ last'.func = func
            /\ ~hasattr(func, "__annotations__"))
               => (last'.exc = ExcNone /\ last'.bool)]_vars

\* C28 (as claimed): an add_packages call that raises leaves the registry
\* as it was before the call.
C28_AllOrNothing ==
    [][(last'.op = "add_packages" /\ last'.exc # ExcNone)
           => UNCHANGED package_basename_to_subpackages]_vars

\* The items of a call that name a package registered, in the registry
\* trie, with a configuration other than that of the call.
Conflicting(call, trie) ==
    {k \in DOMAIN call.package_names.items :
        LET path == split(call.package_names.items[k]) IN
        path \in DOMAIN trie /\ trie[path] \notin {None, call.conf}}

\* C28 (amended): an add_packages call that raises on invalid arguments
\* leaves the registry as it was; one that raises on a conflict does so at
\* the first item naming a package registered with another configuration,
\* leaves every package registered before the call as it was, and has
\* registered with its configuration every item before that first one and
\* no other package.
C28_ValidationOnlyAllOrNothing ==
    [][(last'.op = "add_packages" /\ last'.exc # ExcNone) =>
        IF add_packages_invalid(last'.package_names, last'.conf)
        THEN UNCHANGED package_basename_to_subpackages
        ELSE LET items == last'.package_names.items
                 before == package_basename_to_subpackages
                 after == package_basename_to_subpackages'
                 first == CHOOSE k \in Conflicting(last', before) :
                              \A j \in Conflicting(last', before) : k <= j
             IN  /\ Conflicting(last', before) # {}
                 /\ \A path \in DOMAIN before :
                        /\ path \in DOMAIN after
                        /\ before[path] # None => after[path] = before[path]
                 /\ \A j \in 1..(first - 1) :
                        after[split(items[j])] = last'.conf
                 /\ \A path \in DOMAIN after :
                        (after[path] # None
                            /\ (path \notin DOMAIN before
                                   \/ before[path] = None))
                        => \E j \in 1..(first - 1) : path = split(items[j])
       ]_vars

\* C28 witness: add_packages raised on the second of two names, which was
\* registered with the other configuration, after registering the first.
C28_Witness ==
    /\ last.op = "add_packages" /\ last.exc # ExcNone
    /\ last.package_names = PkgTuple(<<"a", "a.b">>) /\ last.conf = "c2"
    /\ ConfOf(<<"a", "b">>) = "c1" /\ ConfOf(<<"a">>) = "c2"

\* ------------------------------------------------ add_packages by threads
\* Two threads register one package each.  add_packages acquires no lock:
\* it "is only safely callable in a thread-safe manner within a with
\* _claw_lock: context manager" (clawpkgadd.py, lines 275-278), which is
\* its caller's part, so a thread acquires the reentrant lock, runs the
\* statements of the registration loop one by one and releases the lock,
\* on an exception as well.  The thread holding the lock is the only one
\* inside the loop, so the node it descended to is named by its path.
ClawThreads == {1, 2}

\* The packages the threads register.
ThreadPackageNames == {"a", "a.b", "a.c"}

\* True only if the path q leads below the node at the path p.
IsBelow(q, p) == Len(q) > Len(p) /\ SubSeq(q, 1, Len(p)) = p

\* The trie after a new PackageBasenameToSubpackages() is assigned at the
\* path: a node with no configuration and no subpackage.
NewNode(trie, path) ==
    [q \in {r \in DOMAIN trie : ~IsBelow(r, path)} \cup {path} |->
        IF q = path THEN None ELSE trie[q]]

\* with _claw_lock: entered by the caller of add_packages; lines 363-384.
ClawThreadAcquire(t) ==
    /\ claw_threads[t].pc = "call"
    /\ _claw_lock \in {0, t}
    /\ _claw_lock' = t
    /\ claw_threads' = [claw_threads EXCEPT ![t].pc = "get"]
    /\ UNCHANGED <<hintvars, last, funcvars, decor, threads, clawvars,
                   memovars>>

\* Lines 389-390: the node of the next basename, if there is one.
ClawThreadGet(t) ==
    /\ claw_threads[t].pc = "get"
    /\ LET self == claw_threads[t]
           path == Append(self.curr, split(self.package_name)[self.i])
       IN  claw_threads' =
               [claw_threads EXCEPT
                   ![t].pc = "create",
                   ![t].found =
                       path \in DOMAIN package_basename_to_subpackages]
    /\ UNCHANGED <<hintvars, last, funcvars, decor, threads, clawvars,
                   memovars, _claw_lock>>

\* Lines 403-409 assigning a new node whether or not there is one.
ClawThreadCreate_always(t) ==
    /\ claw_threads[t].pc = "create"
    /\ LET self == claw_threads[t]
           path == Append(self.curr, split(self.package_name)[self.i])
       IN  /\ package_basename_to_subpackages' =
                   NewNode(package_basename_to_subpackages, path)
           /\ claw_threads' =
                  [claw_threads EXCEPT
                      ![t].curr = path,
                      ![t].i = self.i + 1,
                      ![t].pc = IF self.i = Len(split(self.package_name))
                                THEN "leaf" ELSE "get"]
    /\ UNCHANGED <<hintvars, last, funcvars, decor, threads, memovars,
                   _claw_lock>>

\* Lines 403-409: a new node is assigned if there was none, and the loop
\* goes one subpackage deeper.
ClawThreadCreate(t) ==
    /\ claw_threads[t].pc = "create"
    /\ LET self == claw_threads[t]
           path == Append(self.curr, split(self.package_name)[self.i])
       IN  /\ package_basename_to_subpackages' =
                   IF self.found THEN package_basename_to_subpackages
                   ELSE NewNode(package_basename_to_subpackages, path)
           /\ claw_threads' =
                  [claw_threads EXCEPT
                      ![t].curr = path,
                      ![t].i = self.i + 1,
                      ![t].pc = IF self.i = Len(split(self.package_name))
                                THEN "leaf" ELSE "get"]
    /\ UNCHANGED <<hintvars, last, funcvars, decor, threads, memovars,
                   _claw_lock>>

\* Lines 420-440: the package is registered with the configuration if it
\* has none, and the call raises if it has another.
ClawThreadLeaf(t) ==
    /\ claw_threads[t].pc = "leaf"
    /\ LET self == claw_threads[t]
           conf_curr == package_basename_to_subpackages[self.curr]
       IN  IF conf_curr = None
           THEN /\ package_basename_to_subpackages' =
                       [package_basename_to_subpackages
                           EXCEPT ![self.curr] = self.conf]
                /\ claw_threads' = [claw_threads EXCEPT ![t].pc = "release"]
           ELSE /\ UNCHANGED package_basename_to_subpackages
                /\ claw_threads' =
                       [claw_threads EXCEPT
                           ![t].pc = "release",
                           ![t].exc =
                               IF conf_curr # self.conf
                               THEN BeartypeClawRegistrationException
                               ELSE ExcNone]
    /\ UNCHANGED <<hintvars, last, funcvars, decor, threads, memovars,
                   _claw_lock>>

\* The with-block is left, by the return of add_packages or by its
\* exception, and the lock released.
ClawThreadRelease(t) ==
    /\ claw_threads[t].pc = "release"
    /\ _claw_lock' = 0
    /\ claw_threads' =
           [claw_threads EXCEPT
               ![t].pc = IF claw_threads[t].exc = ExcNone THEN "done"
                         ELSE "raised"]
    /\ UNCHANGED <<hintvars, last, funcvars, decor, threads, clawvars,
                   memovars>>

InitClawThreads ==
    /\ annotations = [func \in Funcs |-> [p \in {} |-> NoneObj]]
    /\ _HINT_REPR_TO_HINT = EmptyCache
    /\ resolved = {}
    /\ last = NoCall
    /\ arg = NoneObj
    /\ InitFuncIdle /\ InitDecorIdle /\ InitThreadsIdle /\ InitClawIdle
    /\ InitMemoIdle
    /\ _claw_lock = 0
    /\ \E names \in [ClawThreads -> ThreadPackageNames],
          confs \in [ClawThreads -> BeartypeConfs] :
           claw_threads =
               [t \in ClawThreads |->
                   [pc |-> "call", package_name |-> names[t],
                    conf |-> confs[t], curr |-> <<>>, i |-> 1,
                    found |-> FALSE, exc |-> ExcNone]]

NextClawThreads ==
    \E t \in ClawThreads :
        \/ ClawThreadAcquire(t)
        \/ ClawThreadGet(t)
        \/ ClawThreadCreate(t)
        \/ ClawThreadLeaf(t)
        \/ ClawThreadRelease(t)

SpecClawThreads == InitClawThreads /\ [][NextClawThreads]_vars

C30_RawTupleNotIgnorable ==
    /\ ( /\ last.op = "is_hint_ignorable"
         /\ last.hint.kind = "tuple" /\ IsHashable(last.hint) )
           => (last.exc = ExcNone /\ ~last.bool)
    /\ ( /\ IsResolve(last) /\ Returned(last)
         /\ last.hint.kind = "tuple"
         /\ \E member \in Range(last.hint.args) :
                member \in HINTS_SHALLOW_IGNORABLE )
           => /\ Slot(last) = last.val /\ last.val.kind # "tuple"
              /\ is_hint_ignorable(Slot(last)) = ReturnBool(TRUE)
              /\ is_hint_ignorable(last.hint) = ReturnBool(FALSE)

\* C30 witness: the tuple (object, int) annotating f's x was resolved into
\* the union of object and int, which is ignorable.
C30_Witness ==
    /\ IsResolve(last) /\ Returned(last)
    /\ last.hint = Tuple(<<object, int>>)
    /\ Slot(last) = Union(<<object, int>>)
    /\ is_hint_ignorable(Slot(last)).bool
    /\ ~is_hint_ignorable(last.hint).bool
====
